---- MODULE Spec2Model ----
(***************************************************************************)
(* WeakKeys (pkg/sql/opt/props/weak_keys.go): a Go slice of column sets    *)
(* kept free of redundant (superset) keys.  A Go slice is a header         *)
(* (pointer, length) over a backing array whose length is the capacity;   *)
(* several headers may share one backing array.  The model keeps the       *)
(* backing arrays in `heap` and one slice header per holder in `hdr`.      *)
(***************************************************************************)
EXTENDS Integers, Sequences, FiniteSets, TLC

\* Largest capacity of a backing array the model allocates.
MaxCap == 4

\* opt.ColSet values and the column ids they are drawn from.
Cols == {1, 2, 3}
ColSet == SUBSET Cols

\* The variables of the optimizer that hold a WeakKeys value.
Holders == {"a", "b"}

\* The holders in a fixed order.  Backing arrays are identified by the rank
\* of the first holder that points to them; 0 is the nil pointer.
HolderSeq == <<"a", "b">>
ArrIds == 1..Len(HolderSeq)

VARIABLES
    heap,   \* heap[id]: the backing array id, a sequence of length cap
    hdr,    \* hdr[h]: the slice header of holder h, [arr, len]
    last,   \* the call that has just returned, NoCall between calls
    track,  \* the pair of holders a Copy or a Combine has related, if followed
    added,  \* the keys the Add calls have been given, if followed
    lex,    \* the lexer: [in, tokens, lastPos, lastError]
    lval,   \* the sqlSymType the parser hands to Lex
    out     \* the lexer method that has returned last, and what Lex returned

lexVars == <<lex, lval, out>>

vars == <<heap, hdr, last, track, added, lex, lval, out>>

NilSlice == [arr |-> 0, len |-> 0]

\* The zero value of opt.ColSet, which make() fills new storage with.
ZeroColSet == {}

\* A call record: the operation, its receiver wk, its argument (other or
\* key), the holder dst the result is stored in, the branch taken, the value
\* returned by the query, and the receiver's elements before the call.
NoCall == [op |-> "idle", wk |-> "-", other |-> "-", dst |-> "-",
           key |-> {}, path |-> "-", ret |-> FALSE, was |-> <<>>]

----------------------------------------------------------------------------
\* Reading a slice

\* The backing array a header points to (nil has none).
ArrayOf(hp, s) == IF s.arr = 0 THEN <<>> ELSE hp[s.arr]

\* The elements s[0..len-1] a holder of header s observes.
Elems(hp, s) == SubSeq(ArrayOf(hp, s), 1, s.len)

View(h) == Elems(heap, hdr[h])

Range(seq) == {seq[i] : i \in 1..Len(seq)}

\* existing.SubsetOf(weakKey)
SubsetOf(x, y) == x \subseteq y

\* ContainsFrom with the subset test turned around.
RECURSIVE ContainsFrom_Superset(_, _, _)
ContainsFrom_Superset(wk, weakKey, i) ==
    IF i > Len(wk) THEN FALSE
    ELSE IF SubsetOf(weakKey, wk[i]) THEN TRUE
    ELSE ContainsFrom_Superset(wk, weakKey, i + 1)

\* func (wk WeakKeys) ContainsSubsetOf(weakKey opt.ColSet) bool
RECURSIVE ContainsFrom(_, _, _)
ContainsFrom(wk, weakKey, i) ==
    IF i > Len(wk) THEN FALSE
    ELSE IF SubsetOf(wk[i], weakKey) THEN TRUE
    ELSE ContainsFrom(wk, weakKey, i + 1)

ContainsSubsetOf(wk, weakKey) == ContainsFrom(wk, weakKey, 1)

----------------------------------------------------------------------------
\* Add

\* AddLoop without the write that compacts a survivor into its slot.
RECURSIVE AddLoop_NoCompact(_, _, _, _, _)
AddLoop_NoCompact(arr, n, new, i, insert) ==
    IF i > n THEN [arr |-> arr, insert |-> insert, redundant |-> FALSE]
    ELSE LET existing == arr[i] IN
         IF SubsetOf(existing, new)
         THEN [arr |-> arr, insert |-> insert, redundant |-> TRUE]
         ELSE IF ~SubsetOf(new, existing)
         THEN AddLoop_NoCompact(arr, n, new, i + 1, insert + 1)
         ELSE AddLoop_NoCompact(arr, n, new, i + 1, insert)

\* AddLoop that keeps the existing keys the new key makes redundant.
RECURSIVE AddLoop_KeepsSupersets(_, _, _, _, _)
AddLoop_KeepsSupersets(arr, n, new, i, insert) ==
    IF i > n THEN [arr |-> arr, insert |-> insert, redundant |-> FALSE]
    ELSE IF SubsetOf(arr[i], new)
    THEN [arr |-> arr, insert |-> insert, redundant |-> TRUE]
    ELSE AddLoop_KeepsSupersets(arr, n, new, i + 1, insert + 1)

\* AddLoop that takes the new key for redundant only when an existing key is
\* a proper subset of it.
RECURSIVE AddLoop_ProperSubset(_, _, _, _, _)
AddLoop_ProperSubset(arr, n, new, i, insert) ==
    IF i > n THEN [arr |-> arr, insert |-> insert, redundant |-> FALSE]
    ELSE LET existing == arr[i] IN
         IF SubsetOf(existing, new) /\ existing # new
         THEN [arr |-> arr, insert |-> insert, redundant |-> TRUE]
         ELSE IF ~SubsetOf(new, existing)
         THEN AddLoop_ProperSubset(IF insert + 1 # i
                                   THEN [arr EXCEPT ![insert + 1] = existing]
                                   ELSE arr,
                                   n, new, i + 1, insert + 1)
         ELSE AddLoop_ProperSubset(arr, n, new, i + 1, insert)

\* AddLoop that moves a survivor into its slot and leaves the set of all
\* columns in the slot it came from.
RECURSIVE AddLoop_Moves(_, _, _, _, _)
AddLoop_Moves(arr, n, new, i, insert) ==
    IF i > n THEN [arr |-> arr, insert |-> insert, redundant |-> FALSE]
    ELSE LET existing == arr[i] IN
         IF SubsetOf(existing, new)
         THEN [arr |-> arr, insert |-> insert, redundant |-> TRUE]
         ELSE IF ~SubsetOf(new, existing)
         THEN AddLoop_Moves(IF insert + 1 # i
                            THEN [arr EXCEPT ![insert + 1] = existing,
                                             ![i] = Cols]
                            ELSE arr,
                            n, new, i + 1, insert + 1)
         ELSE AddLoop_Moves(arr, n, new, i + 1, insert)

\* AddLoop that also removes the existing keys that share no column with the
\* new key.
RECURSIVE AddLoop_DropsDisjoint(_, _, _, _, _)
AddLoop_DropsDisjoint(arr, n, new, i, insert) ==
    IF i > n THEN [arr |-> arr, insert |-> insert, redundant |-> FALSE]
    ELSE LET existing == arr[i] IN
         IF SubsetOf(existing, new)
         THEN [arr |-> arr, insert |-> insert, redundant |-> TRUE]
         ELSE IF ~SubsetOf(new, existing) /\ existing \cap new # {}
         THEN AddLoop_DropsDisjoint(IF insert + 1 # i
                                    THEN [arr EXCEPT ![insert + 1] = existing]
                                    ELSE arr,
                                    n, new, i + 1, insert + 1)
         ELSE AddLoop_DropsDisjoint(arr, n, new, i + 1, insert)

\* The loop of Add over the array `arr` of a slice of length n, from index i
\* (1-based) with `insert` survivors already compacted.  It writes survivors
\* into the array as it goes and stops at the first element that is a subset
\* of new.
RECURSIVE AddLoop(_, _, _, _, _)
AddLoop(arr, n, new, i, insert) ==
    IF i > n THEN [arr |-> arr, insert |-> insert, redundant |-> FALSE]
    ELSE LET existing == arr[i] IN
         IF SubsetOf(existing, new)
         THEN [arr |-> arr, insert |-> insert, redundant |-> TRUE]
         ELSE IF ~SubsetOf(new, existing)
         THEN AddLoop(IF insert + 1 # i
                      THEN [arr EXCEPT ![insert + 1] = existing]
                      ELSE arr,
                      n, new, i + 1, insert + 1)
         ELSE AddLoop(arr, n, new, i + 1, insert)

\* n zero values.
RECURSIVE Zeros(_)
Zeros(n) == IF n = 0 THEN <<>> ELSE Append(Zeros(n - 1), ZeroColSet)

\* An array of capacity c holding the elements of seq, zero beyond them.
MakeArray(seq, c) == seq \o Zeros(c - Len(seq))

\* The capacities append may give the array it allocates for n elements.
GrowCaps(n) == n..MaxCap

\* An array id that no holder other than h points to.
FreshFor(h) ==
    CHOOSE id \in ArrIds : \A g \in Holders \ {h} : hdr[g].arr # id

\* Memory after a call.  Storage that no header reaches is never read again
\* (no operation reslices beyond len): arrays nobody points to are dropped,
\* slots at or beyond the length of every header of the array are forgotten.
\* Array ids carry no meaning beyond which headers share an array; an array
\* is renumbered to the rank of the first holder pointing to it.
FirstRank(id, hd) ==
    CHOOSE r \in ArrIds :
        /\ hd[HolderSeq[r]].arr = id
        /\ \A q \in 1..(r - 1) : hd[HolderSeq[q]].arr # id
Reach(id, hd) ==
    LET lens == {hd[h].len : h \in {g \in Holders : hd[g].arr = id}}
    IN  CHOOSE n \in lens : \A m \in lens : m <= n
Settle(hp, hd) ==
    [heap |-> [r \in ArrIds |->
                 LET id == hd[HolderSeq[r]].arr IN
                 IF id # 0 /\ FirstRank(id, hd) = r
                 THEN MakeArray(SubSeq(hp[id], 1, Reach(id, hd)), Len(hp[id]))
                 ELSE <<>>],
     hdr |-> [h \in Holders |->
                 [arr |-> IF hd[h].arr = 0 THEN 0 ELSE FirstRank(hd[h].arr, hd),
                  len |-> hd[h].len]]]

\* wk.Add(new) on a slice with storage capacity to spare: the loop, then
\* append in place.  Gives the array and the new length.
AddInPlace(arr, n, new) ==
    LET r == AddLoop(arr, n, new, 1, 0) IN
    IF r.redundant THEN [arr |-> r.arr, len |-> n]
    ELSE [arr |-> [r.arr EXCEPT ![r.insert + 1] = new], len |-> r.insert + 1]

\* The memories func (wk *WeakKeys) Add(new opt.ColSet) may leave when called
\* on holder h: one, or one per capacity append may choose.
AddResults(h, new) ==
    LET s == hdr[h]
        arr == ArrayOf(heap, s)
        r == AddLoop(arr, s.len, new, 1, 0)
    IN  IF r.redundant
        THEN {[heap |-> [heap EXCEPT ![s.arr] = r.arr], hdr |-> hdr]}
        ELSE IF r.insert < Len(arr)
        THEN {[heap |-> [heap EXCEPT ![s.arr] = [r.arr EXCEPT ![r.insert + 1] = new]],
               hdr |-> [hdr EXCEPT ![h].len = r.insert + 1]]}
        ELSE LET id == FreshFor(h) IN
             {[heap |-> [heap EXCEPT ![id] =
                           MakeArray(Append(SubSeq(r.arr, 1, r.insert), new), c)],
               hdr |-> [hdr EXCEPT ![h] = [arr |-> id, len |-> r.insert + 1]]]
              : c \in GrowCaps(r.insert + 1)}

\* The return path Add takes on the elements wk: the early return, or the
\* append after removing some keys or none.
AddPath(wk, new) ==
    LET r == AddLoop(wk, Len(wk), new, 1, 0) IN
    IF r.redundant THEN "redundant"
    ELSE IF r.insert < Len(wk) THEN "replaced" ELSE "appended"

\* Leaving memory m.
Becomes(m) ==
    LET st == Settle(m.heap, m.hdr) IN
    /\ heap' = st.heap
    /\ hdr' = st.hdr

\* The caller is between two calls.
Idle == last.op = "idle"

\* h.Add(new)
Add(h, new) ==
    /\ Idle
    /\ \E m \in AddResults(h, new) : Becomes(m)
    /\ last' = [NoCall EXCEPT !.op = "Add", !.wk = h, !.key = new,
                              !.path = AddPath(View(h), new), !.was = View(h)]

----------------------------------------------------------------------------
\* Copy, Combine and the query, each called on holders and stored in a holder

\* Memory with header s, over an array of contents arr (none when s.arr = 0),
\* stored in holder dst.
Stored(dst, s, arr) ==
    [heap |-> IF s.arr = 0 THEN heap ELSE [heap EXCEPT ![s.arr] = arr],
     hdr |-> [hdr EXCEPT ![dst] = s]]

\* func (wk WeakKeys) Copy() WeakKeys: make(WeakKeys, len(wk)) and copy.
CopyOf(wk) == MakeArray(wk, Len(wk))

\* Copy that returns the receiver's own slice.
CopyResult_Shared(dst, src) == Stored(dst, hdr[src], ArrayOf(heap, hdr[src]))

\* dst = src.Copy().  A slice made with length 0 has no element storage; it
\* is kept as NilSlice.
CopyResult(dst, src) ==
    LET res == CopyOf(View(src)) IN
    IF Len(res) = 0
    THEN Stored(dst, NilSlice, <<>>)
    ELSE Stored(dst, [arr |-> FreshFor(dst), len |-> Len(res)], res)

Copy(dst, src) ==
    /\ Idle
    /\ Becomes(CopyResult(dst, src))
    /\ last' = [NoCall EXCEPT !.op = "Copy", !.wk = src, !.dst = dst,
                              !.was = View(src)]

\* The loop of Combine: res.Add(k) for each k of other from index i on.  res
\* was made with capacity len(wk)+len(other), so Add never reallocates.
RECURSIVE CombineLoop(_, _, _)
CombineLoop(res, other, i) ==
    IF i > Len(other) THEN res
    ELSE CombineLoop(AddInPlace(res.arr, res.len, other[i]), other, i + 1)

\* Combine that appends the keys of other instead of adding them.
CombineFresh_Append(wk, other) ==
    [arr |-> wk \o other, len |-> Len(wk) + Len(other)]

\* The slice Combine builds when both sides are non-empty.
CombineFresh(wk, other) ==
    CombineLoop([arr |-> MakeArray(wk, Len(wk) + Len(other)), len |-> Len(wk)],
                other, 1)

\* The elements of the slice wk.Combine(other) returns.
CombineElems(wk, other) ==
    IF Len(wk) = 0 THEN other
    ELSE IF Len(other) = 0 THEN wk
    ELSE LET res == CombineFresh(wk, other) IN SubSeq(res.arr, 1, res.len)

\* The branch of Combine taken.
CombinePath(wk, other) ==
    IF Len(wk) = 0 THEN "other"
    ELSE IF Len(other) = 0 THEN "wk" ELSE "fresh"

\* Combine that returns the receiver whichever side is empty.
CombineResult_ReturnsReceiver(dst, wk, other) ==
    IF hdr[wk].len = 0 \/ hdr[other].len = 0
    THEN Stored(dst, hdr[wk], ArrayOf(heap, hdr[wk]))
    ELSE LET res == CombineFresh(View(wk), View(other)) IN
         Stored(dst, [arr |-> FreshFor(dst), len |-> res.len], res.arr)

\* Combine that copies the non-empty side instead of returning it.
CombineResult_AlwaysCopies(dst, wk, other) ==
    IF hdr[wk].len = 0 /\ hdr[other].len = 0
    THEN Stored(dst, NilSlice, <<>>)
    ELSE LET res == IF hdr[wk].len = 0
                    THEN [arr |-> CopyOf(View(other)), len |-> hdr[other].len]
                    ELSE IF hdr[other].len = 0
                    THEN [arr |-> CopyOf(View(wk)), len |-> hdr[wk].len]
                    ELSE CombineFresh(View(wk), View(other))
         IN  Stored(dst, [arr |-> FreshFor(dst), len |-> res.len], res.arr)

\* Combine that builds its result in the receiver's storage.
CombineResult_InReceiver(dst, wk, other) ==
    IF hdr[wk].len = 0
    THEN Stored(dst, hdr[other], ArrayOf(heap, hdr[other]))
    ELSE IF hdr[other].len = 0
    THEN Stored(dst, hdr[wk], ArrayOf(heap, hdr[wk]))
    ELSE LET res == CombineFresh(View(wk), View(other)) IN
         Stored(dst, [arr |-> hdr[wk].arr, len |-> res.len], res.arr)

\* dst = wk.Combine(other)
CombineResult(dst, wk, other) ==
    IF hdr[wk].len = 0
    THEN Stored(dst, hdr[other], ArrayOf(heap, hdr[other]))
    ELSE IF hdr[other].len = 0
    THEN Stored(dst, hdr[wk], ArrayOf(heap, hdr[wk]))
    ELSE LET res == CombineFresh(View(wk), View(other)) IN
         Stored(dst, [arr |-> FreshFor(dst), len |-> res.len], res.arr)

Combine(dst, wk, other) ==
    /\ Idle
    /\ hdr[wk].len + hdr[other].len <= MaxCap
    /\ Becomes(CombineResult(dst, wk, other))
    /\ last' = [NoCall EXCEPT !.op = "Combine", !.wk = wk, !.other = other,
                              !.dst = dst, !.was = View(wk),
                              !.path = CombinePath(View(wk), View(other))]

\* h.ContainsSubsetOf(weakKey)
Query(h, weakKey) ==
    /\ Idle
    /\ last' = [NoCall EXCEPT !.op = "ContainsSubsetOf", !.wk = h, !.key = weakKey,
                              !.ret = ContainsSubsetOf(View(h), weakKey),
                              !.was = View(h)]
    /\ UNCHANGED <<heap, hdr>>

\* The caller goes on to its next call.
Resume ==
    /\ ~Idle
    /\ last' = NoCall
    /\ UNCHANGED <<heap, hdr>>

----------------------------------------------------------------------------
\* History: the holder r that last received the result of a Copy of, or of a
\* Combine returning, the value of another holder x, and whether no, one or
\* more Add calls have been made since.  Any other Copy or Combine ends it.
NoTrack == [kind |-> "none", r |-> "-", x |-> "-", adds |-> "none"]

TrackAfter(t, call) ==
    IF call.op = "Copy"
    THEN IF call.dst # call.wk
         THEN [kind |-> "copy", r |-> call.dst, x |-> call.wk, adds |-> "none"]
         ELSE NoTrack
    ELSE IF call.op = "Combine"
    THEN LET X == IF call.path = "other" THEN call.other ELSE call.wk IN
         IF call.path # "fresh" /\ call.dst # X /\ hdr'[X].len > 0
         THEN [kind |-> "alias", r |-> call.dst, x |-> X, adds |-> "none"]
         ELSE NoTrack
    ELSE IF call.op = "Add" /\ t.kind # "none"
    THEN [t EXCEPT !.adds = IF t.adds = "none" THEN "one" ELSE "more"]
    ELSE t

----------------------------------------------------------------------------
\* The lexer (package parser of the same file)

\* Longest token list the scanner hands to the lexer.
MaxTokens == 2

\* Lex calls made after the token list is exhausted.
MaxPastEnd == 2

\* Token ids.  The grammar generates them; they are distinct and positive, and
\* 0 is the end of the input.
NOT == 1
WITH_KW == 2
AS == 3
OF == 4
BETWEEN == 5
IN_KW == 6
LIKE == 7
ILIKE == 8
SIMILAR == 9
TIME == 10
ORDINALITY == 11
ERROR == 12
HELPTOKEN == 13
\* Any token id that no case of the lexer names.
IDENT == 14
AS_LA == 15
NOT_LA == 16
WITH_LA == 17

\* The ids of the tokens the scanner produces.
ScannedIds == {NOT, WITH_KW, AS, OF, BETWEEN, IN_KW, LIKE, ILIKE, SIMILAR,
               TIME, ORDINALITY, ERROR, HELPTOKEN, IDENT}

\* The text of a scanned token, by id; of an ERROR token, the scanner's
\* message.
TokStr == <<"not", "with", "as", "of", "between", "in", "like", "ilike",
            "similar", "time", "ordinality", "lexical error", "??", "x">>

\* sqlSymType: the fields the lexer reads and writes.
ZeroSym == [id |-> 0, pos |-> 0, str |-> ""]

\* The SQL text is kept as a sequence of cells, one per token, with at most one
\* newline cell, after token number nl (none when nl = 0).  The scanner gives
\* each token the offset of its cell.
PosOf(k, nl) == (k - 1) + (IF nl > 0 /\ k > nl THEN 1 ELSE 0)

RECURSIVE TokensOf(_, _, _)
TokensOf(ids, nl, k) ==
    IF k = 0 THEN <<>>
    ELSE Append(TokensOf(ids, nl, k - 1),
                [id |-> ids[k], pos |-> PosOf(k, nl), str |-> TokStr[ids[k]]])

RECURSIVE TextOf(_, _, _)
TextOf(ids, nl, k) ==
    IF k = 0 THEN <<>>
    ELSE TextOf(ids, nl, k - 1) \o <<TokStr[ids[k]]>>
            \o (IF k = nl THEN <<"\n">> ELSE <<>>)

\* The token id lists of length n.
RECURSIVE IdLists(_)
IdLists(n) ==
    IF n = 0 THEN {<<>>}
    ELSE {Append(l, id) : l \in IdLists(n - 1), id \in ScannedIds}

\* parseErr behind the pointer lastError; nil is the nil pointer.  A message
\* is the sequence of the pieces it is formatted from, "" the empty sequence.
NilErr == [nil |-> TRUE, msg |-> <<>>, hint |-> <<>>, detail |-> <<>>,
           unimplementedFeature |-> <<>>]
NewErr == [NilErr EXCEPT !.nil = FALSE]

\* The zero lexer.
ZeroLexer == [in |-> <<>>, tokens |-> <<>>, lastPos |-> 0, lastError |-> NilErr]

NoLexCall == [op |-> "none", ret |-> 0]

\* func (l *lexer) init(sql, tokens, ...)
LexerInit(sql, tokens) ==
    [in |-> sql, tokens |-> tokens, lastPos |-> 0 - 1, lastError |-> NilErr]

\* Lookahead without the case SIMILAR.
Lookahead_NoSimilar(id, nextID) ==
    IF id = AS THEN (IF nextID = OF THEN AS_LA ELSE id)
    ELSE IF id = NOT
    THEN (IF nextID \in {BETWEEN, IN_KW, LIKE, ILIKE} THEN NOT_LA ELSE id)
    ELSE IF id = WITH_KW
    THEN (IF nextID \in {TIME, ORDINALITY} THEN WITH_LA ELSE id)
    ELSE id

\* The id Lex returns for a token of the given id followed by a token of id
\* nextID (0 when it is the last).
Lookahead(id, nextID) ==
    IF id = AS THEN (IF nextID = OF THEN AS_LA ELSE id)
    ELSE IF id = NOT
    THEN (IF nextID \in {BETWEEN, IN_KW, LIKE, ILIKE, SIMILAR} THEN NOT_LA ELSE id)
    ELSE IF id = WITH_KW
    THEN (IF nextID \in {TIME, ORDINALITY} THEN WITH_LA ELSE id)
    ELSE id

\* What Lex leaves in *lval, which held lv, when lastPos has become p (0-based).
LexValue(l, lv, p) ==
    IF p >= Len(l.tokens)
    THEN [lv EXCEPT !.id = 0, !.pos = Len(l.in), !.str = "EOF"]
    ELSE LET tok == l.tokens[p + 1]
             nextID == IF p + 1 < Len(l.tokens) THEN l.tokens[p + 2].id ELSE 0
         IN  IF tok.id \in {NOT, WITH_KW, AS}
             THEN [tok EXCEPT !.id = Lookahead(tok.id, nextID)]
             ELSE tok

\* func (l *lexer) Lex(lval *sqlSymType) int
Lex ==
    /\ lex.lastPos + 1 < Len(lex.tokens) + MaxPastEnd
    /\ LET p == lex.lastPos + 1 IN
       /\ lex' = [lex EXCEPT !.lastPos = p]
       /\ lval' = LexValue(lex, lval, p)
       /\ out' = [op |-> "Lex", ret |-> lval'.id]

\* lastToken that reports the last token of the list once the list is
\* exhausted.
lastToken_ClampsToLast(l) ==
    IF l.lastPos < 0 \/ Len(l.tokens) = 0 THEN ZeroSym
    ELSE IF l.lastPos >= Len(l.tokens) THEN l.tokens[Len(l.tokens)]
    ELSE l.tokens[l.lastPos + 1]

\* func (l *lexer) lastToken() sqlSymType
lastToken(l) ==
    IF l.lastPos < 0 THEN ZeroSym
    ELSE IF l.lastPos >= Len(l.tokens)
    THEN [id |-> 0, pos |-> Len(l.in), str |-> "EOF"]
    ELSE l.tokens[l.lastPos + 1]

\* func (l *lexer) initLastErr()
initLastErr(l) ==
    IF l.lastError.nil THEN [l EXCEPT !.lastError = NewErr] ELSE l

\* strings.IndexByte(l.in[pos:], '\n'), and strings.LastIndexByte(l.in[:pos],
\* '\n'): offsets are 0-based, -1 when there is no newline.
IndexByte(in, pos) ==
    LET at == {c \in (pos + 1)..Len(in) : in[c] = "\n"} IN
    IF at = {} THEN 0 - 1
    ELSE (CHOOSE c \in at : \A d \in at : c <= d) - 1 - pos
LastIndexByte(in, pos) ==
    LET at == {c \in 1..pos : in[c] = "\n"} IN
    IF at = {} THEN 0 - 1
    ELSE (CHOOSE c \in at : \A d \in at : d <= c) - 1

RECURSIVE Repeat(_, _)
Repeat(str, n) == IF n <= 0 THEN <<>> ELSE Append(Repeat(str, n - 1), str)

\* func (l *lexer) Error(e string)
ErrorIn(l, e) ==
    LET l1 == initLastErr(l)
        lastTok == lastToken(l1)
        msg == IF lastTok.id = ERROR
               THEN <<lastTok.str>>
               ELSE <<e, " at or near \"", lastTok.str, "\"">>
        ix == IndexByte(l1.in, lastTok.pos)
        i == IF ix = 0 - 1 THEN Len(l1.in) ELSE ix + lastTok.pos
        j == LastIndexByte(l1.in, lastTok.pos) + 1
        detail == <<"source SQL:\n">> \o SubSeq(l1.in, 1, i) \o <<"\n">>
                     \o Repeat(" ", lastTok.pos - j) \o <<"^">>
    IN  [l1 EXCEPT !.lastError.msg = msg,
                   !.lastError.detail = detail,
                   !.lastError.unimplementedFeature = <<>>,
                   !.lastError.hint = <<>>]

Error(e) ==
    /\ lex' = ErrorIn(lex, e)
    /\ out' = [op |-> "Error", ret |-> 0]
    /\ UNCHANGED lval

\* func (l *lexer) Unimplemented(feature string)
Unimplemented(feature) ==
    /\ lex' = [ErrorIn(lex, "unimplemented") EXCEPT
                  !.lastError.unimplementedFeature = <<feature>>]
    /\ out' = [op |-> "Unimplemented", ret |-> 0]
    /\ UNCHANGED lval

\* func (l *lexer) UnimplementedWithIssue(issue int)
UnimplementedWithIssue(issue) ==
    /\ lex' = [ErrorIn(lex, "unimplemented") EXCEPT
                  !.lastError.unimplementedFeature = <<"#", issue>>,
                  !.lastError.hint = <<"See: issues/", issue>>]
    /\ out' = [op |-> "UnimplementedWithIssue", ret |-> 0]
    /\ UNCHANGED lval

\* func (l *lexer) UnimplementedWithIssueDetail(issue int, detail string)
UnimplementedWithIssueDetail(issue, detail) ==
    /\ lex' = [ErrorIn(lex, "unimplemented") EXCEPT
                  !.lastError.unimplementedFeature = <<"#", issue, ".", detail>>,
                  !.lastError.hint = <<"See: issues/", issue>>]
    /\ out' = [op |-> "UnimplementedWithIssueDetail", ret |-> 0]
    /\ UNCHANGED lval

\* HelpMessage: a command or a function, and the text String() renders.
HelpMessages == {[Command |-> "SELECT", Function |-> "", text |-> "help: SELECT"],
                 [Command |-> "", Function |-> "f", text |-> "help: f"]}

\* func (l *lexer) populateHelpMsg(msg string)
populateHelpMsg(l, msg) ==
    [initLastErr(l) EXCEPT !.lastError.unimplementedFeature = <<>>,
                           !.lastError.msg = <<"help token in input">>,
                           !.lastError.hint = <<msg>>]

\* SetHelp that takes every call for a help request.
SetHelpIn_Always(l, msg) == populateHelpMsg(l, msg.text)

\* func (l *lexer) SetHelp(msg HelpMessage)
SetHelpIn(l, msg) ==
    IF lastToken(l).id = HELPTOKEN
    THEN populateHelpMsg(l, msg.text)
    ELSE [initLastErr(l) EXCEPT !.lastError.hint =
             IF msg.Command # ""
             THEN <<"try \\h ", msg.Command>>
             ELSE <<"try \\hf ", msg.Function>>]

SetHelp(msg) ==
    /\ lex' = SetHelpIn(lex, msg)
    /\ out' = [op |-> "SetHelp", ret |-> 0]
    /\ UNCHANGED lval

----------------------------------------------------------------------------
Init ==
    /\ heap = [id \in ArrIds |-> <<>>]
    /\ hdr = [h \in Holders |-> NilSlice]
    /\ last = NoCall
    /\ track = NoTrack
    /\ added = {}
    /\ lex = ZeroLexer
    /\ lval = ZeroSym
    /\ out = NoLexCall

Call ==
    \/ \E h \in Holders, k \in ColSet : Add(h, k)
    \/ \E dst, src \in Holders : Copy(dst, src)
    \/ \E dst, wk, other \in Holders : Combine(dst, wk, other)
    \/ \E h \in Holders, k \in ColSet : Query(h, k)

Next ==
    \/ Call /\ UNCHANGED <<track, added, lexVars>>
    \/ Resume /\ UNCHANGED <<track, added, lexVars>>

Spec == Init /\ [][Next]_vars

\* The same calls, with the history of Copy and Combine results followed.
Mutate ==
    \/ \E h \in Holders, k \in ColSet : Add(h, k)
    \/ \E dst, src \in Holders : Copy(dst, src)
    \/ \E dst, wk, other \in Holders : Combine(dst, wk, other)

NextTracked ==
    \/ Mutate /\ track' = TrackAfter(track, last') /\ UNCHANGED <<added, lexVars>>
    \/ Resume /\ UNCHANGED <<track, added, lexVars>>

SpecTracked == Init /\ [][NextTracked]_vars

\* History for a Combine of two non-empty sides: the holder r that received
\* the result and the holder x that still holds a side, and the Add calls made
\* since.  Any other Copy or Combine ends it.
TrackFreshAfter(t, call) ==
    IF call.op = "Combine"
    THEN LET sides == {call.wk, call.other} \ {call.dst} IN
         IF call.path = "fresh" /\ sides # {}
         THEN [kind |-> "fresh", r |-> call.dst,
               x |-> CHOOSE g \in sides : TRUE, adds |-> "none"]
         ELSE NoTrack
    ELSE IF call.op = "Copy" THEN NoTrack
    ELSE IF call.op = "Add" /\ t.kind # "none"
    THEN [t EXCEPT !.adds = IF t.adds = "none" THEN "one" ELSE "more"]
    ELSE t

NextFresh ==
    \/ Mutate /\ track' = TrackFreshAfter(track, last') /\ UNCHANGED <<added, lexVars>>
    \/ Resume /\ UNCHANGED <<track, added, lexVars>>

SpecFresh == Init /\ [][NextFresh]_vars

\* The caller calls h.Add(new) a second time, right after the same call has
\* returned.
AddAgain(h, new) ==
    /\ last.op = "Add" /\ last.wk = h /\ last.key = new
    /\ last.other # "again"
    /\ \E m \in AddResults(h, new) : Becomes(m)
    /\ last' = [NoCall EXCEPT !.op = "Add", !.wk = h, !.key = new,
                              !.other = "again",
                              !.path = AddPath(View(h), new), !.was = View(h)]

\* The same calls, where an Add may be repeated at once.
NextRepeat ==
    \/ Mutate /\ UNCHANGED <<track, added, lexVars>>
    \/ (\E h \in Holders, k \in ColSet : AddAgain(h, k))
          /\ UNCHANGED <<track, added, lexVars>>
    \/ Resume /\ UNCHANGED <<track, added, lexVars>>

SpecRepeat == Init /\ [][NextRepeat]_vars

\* A value built from the nil value by Add calls only, in the first holder,
\* with the keys given to Add followed.
Built == HolderSeq[1]

NextAdds ==
    \/ \E k \in ColSet : Add(Built, k) /\ added' = added \cup {k}
                                       /\ UNCHANGED <<track, lexVars>>
    \/ Resume /\ UNCHANGED <<track, added, lexVars>>

SpecAdds == Init /\ [][NextAdds]_vars

\* The lexer after init, on a scanned text of at most MaxTokens tokens.
InitLex ==
    /\ heap = [id \in ArrIds |-> <<>>]
    /\ hdr = [h \in Holders |-> NilSlice]
    /\ last = NoCall
    /\ track = NoTrack
    /\ added = {}
    /\ \E n \in 0..MaxTokens : \E ids \in IdLists(n) : \E nl \in 0..n :
          lex = LexerInit(TextOf(ids, nl, n), TokensOf(ids, nl, n))
    /\ lval = ZeroSym
    /\ out = NoLexCall

wkVars == <<heap, hdr, last, track, added>>

NextLex ==
    \/ Lex /\ UNCHANGED wkVars
    \/ Error("syntax error") /\ UNCHANGED wkVars
    \/ Unimplemented("feature") /\ UNCHANGED wkVars
    \/ UnimplementedWithIssue("1") /\ UNCHANGED wkVars
    \/ UnimplementedWithIssueDetail("1", "detail") /\ UNCHANGED wkVars
    \/ (\E msg \in HelpMessages : SetHelp(msg)) /\ UNCHANGED wkVars

SpecLex == InitLex /\ [][NextLex]_vars

----------------------------------------------------------------------------
\* Properties

\* No key of wk is a subset of (or equal to) a key at another position.
Antichain(wk) ==
    \A i, j \in 1..Len(wk) : i # j => ~(wk[i] \subseteq wk[j])

\* Some key of wk is a subset of k.
Covered(wk, k) == \E i \in 1..Len(wk) : wk[i] \subseteq k

\* The keys of S that have no proper subset in S.
Minimal(S) == {k \in S : ~\E m \in S : m \subseteq k /\ m # k}

\* The keys of wk that are not supersets of k, in order.
RECURSIVE NotSupersets(_, _)
NotSupersets(wk, k) ==
    IF Len(wk) = 0 THEN <<>>
    ELSE IF k \subseteq Head(wk) THEN NotSupersets(Tail(wk), k)
    ELSE <<Head(wk)>> \o NotSupersets(Tail(wk), k)

\* The elements holder h observes after the step.
ViewNext(h) == Elems(heap', hdr'[h])

\* C1: every value a holder observes has no two distinct positions i # j with
\* wk[i] a subset of (or equal to) wk[j].
C1_AntichainInvariant == \A h \in Holders : Antichain(View(h))

\* C2: an Add of a key that some stored key is a subset of leaves the stored
\* sequence and every slot of the storage as they were.
C2_RedundantAddIsNoOp ==
    [][(last'.op = "Add" /\ Covered(View(last'.wk), last'.key))
       => (heap' = heap /\ hdr' = hdr)]_vars

\* C3: an Add of a key k that no stored key is a subset of leaves the stored
\* keys that are not supersets of k, in their order, followed by k.
C3_NonRedundantAdd ==
    [][(last'.op = "Add" /\ ~Covered(View(last'.wk), last'.key))
       => ViewNext(last'.wk) =
             Append(NotSupersets(View(last'.wk), last'.key), last'.key)]_vars

\* An Add has removed a superset of its key, kept another key and appended.
C3_Witness ==
    /\ last.op = "Add"
    /\ ~Covered(last.was, last.key)
    /\ Len(NotSupersets(last.was, last.key)) \in 1..(Len(last.was) - 1)
    /\ View(last.wk)[Len(View(last.wk))] = last.key

\* C4: the set of elements of A.Combine(B), for antichains A and B, is the set
\* of subset-minimal keys of A union B.
C4_CombineMinimal ==
    [][(/\ last'.op = "Combine"
        /\ Antichain(View(last'.wk))
        /\ Antichain(View(last'.other)))
       => Range(ViewNext(last'.dst)) =
             Minimal(Range(View(last'.wk)) \cup Range(View(last'.other)))]_vars

\* A Combine of two non-empty antichains has dropped a key of each side.
C4_Witness ==
    /\ last.op = "Combine"
    /\ last.dst = last.wk /\ last.wk # last.other
    /\ Antichain(last.was) /\ Antichain(View(last.other))
    /\ \E k \in Range(last.was) : k \notin Range(View(last.dst))
    /\ \E k \in Range(View(last.other)) : k \notin Range(View(last.dst))

\* C5: ContainsSubsetOf(candidate) returns true iff some stored key is a
\* subset of the candidate, false on an empty value, and changes no value.
C5_ContainsSubsetOf ==
    [][last'.op = "ContainsSubsetOf"
       => /\ last'.ret <=> Covered(View(last'.wk), last'.key)
          /\ Len(View(last'.wk)) = 0 => ~last'.ret
          /\ heap' = heap /\ hdr' = hdr]_vars

\* The query has returned true for a stored key equal to the candidate, on a
\* value whose first key is no subset of the candidate.
C5_Witness ==
    /\ last.op = "ContainsSubsetOf"
    /\ last.ret
    /\ Len(View(last.wk)) >= 2
    /\ ~(View(last.wk)[1] \subseteq last.key)
    /\ last.key \in Range(View(last.wk))

\* C6: ContainsSubsetOf(k) is true iff Add(k) leaves the stored elements
\* unchanged; when it is false, k becomes a member.
C6_QueryIffAddNoOp ==
    [][last'.op = "Add"
       => /\ ContainsSubsetOf(View(last'.wk), last'.key)
                <=> ViewNext(last'.wk) = View(last'.wk)
          /\ ~ContainsSubsetOf(View(last'.wk), last'.key)
                => last'.key \in Range(ViewNext(last'.wk))]_vars

C10_OrderInvariance ==
    [][(/\ last'.op = "Combine"
        /\ Antichain(View(last'.wk))
        /\ Antichain(View(last'.other)))
       => Range(ViewNext(last'.dst)) =
             Range(CombineElems(View(last'.other), View(last'.wk)))]_vars

\* A Combine of two non-empty antichains has returned its keys in another
\* order than the Combine with the sides swapped returns them.
C10_Witness ==
    /\ last.op = "Combine"
    /\ last.dst = last.wk /\ last.wk # last.other
    /\ Len(last.was) > 0 /\ Len(View(last.other)) > 0
    /\ Antichain(last.was) /\ Antichain(View(last.other))
    /\ View(last.dst) # CombineElems(View(last.other), last.was)
    /\ Len(View(last.dst)) < Len(last.was) + Len(View(last.other))

\* C7: after c = wk.Copy(), c has wk's elements in wk's order, and no Add on c
\* changes the elements of wk, and no Add on wk changes the elements of c.
C7_CopyIndependence ==
    [][/\ (last'.op = "Copy") => ViewNext(last'.dst) = View(last'.wk)
       /\ (track.kind = "copy" /\ last'.op = "Add" /\ last'.wk = track.r)
             => ViewNext(track.x) = View(track.x)
       /\ (track.kind = "copy" /\ last'.op = "Add" /\ last'.wk = track.x)
             => ViewNext(track.r) = View(track.r)]_vars

\* After a Copy and an earlier Add, an Add on the copy has removed a key of
\* the copy that the source still holds.
C7_Witness ==
    /\ track.kind = "copy" /\ track.adds = "more"
    /\ last.op = "Add" /\ last.wk = track.r /\ last.path = "replaced"
    /\ \E k \in Range(View(track.x)) : k \notin Range(View(track.r))
    /\ Len(View(track.x)) >= 2

\* The Add of this step removes a key stored in its receiver.
Removes ==
    \E k \in Range(View(last'.wk)) : k \notin Range(ViewNext(last'.wk))

C12_EmptyKeyAbsorbs ==
    [][last'.op = "Add"
       => /\ (last'.key = {} /\ Len(View(last'.wk)) > 0)
                => ViewNext(last'.wk) = <<{}>>
          /\ View(last'.wk) = <<{}>>
                => ViewNext(last'.wk) = <<{}>>]_vars

\* C13: a Combine of two non-empty sides changes the elements of no holder
\* but the one its result is stored in, its result shares no storage with
\* another holder, and afterwards no Add on the result changes the side still
\* held, and no Add on that side changes the result.
C13_FreshResult ==
    [][/\ (last'.op = "Combine" /\ last'.path = "fresh")
          => \A g \in Holders \ {last'.dst} :
                /\ ViewNext(g) = View(g)
                /\ hdr'[g].arr # hdr'[last'.dst].arr
       /\ (track.kind = "fresh" /\ last'.op = "Add" /\ last'.wk = track.r)
          => ViewNext(track.x) = View(track.x)
       /\ (track.kind = "fresh" /\ last'.op = "Add" /\ last'.wk = track.x)
          => ViewNext(track.r) = View(track.r)]_vars

\* After a Combine of two non-empty sides and an earlier Add, an Add on the
\* result has removed a key that the side still held keeps.
C13_Witness ==
    /\ track.kind = "fresh" /\ track.adds = "more"
    /\ last.op = "Add" /\ last.wk = track.r /\ last.path = "replaced"
    /\ \E k \in Range(View(track.x)) : k \notin Range(View(track.r))
    /\ \E k \in Range(last.was) : k \notin Range(View(track.r))
    /\ Len(View(track.x)) >= 2

\* Some key is stored at two positions of wk.
Duplicated(wk) == \E i, j \in 1..Len(wk) : i # j /\ wk[i] = wk[j]

\* C14: when an Add returns on its redundant path after it has written a
\* slot, it has not truncated: the length is as before, the stored sequence
\* differs from the one before the call and holds a key twice.
C14_PartialCompaction ==
    [][(last'.op = "Add" /\ last'.path = "redundant" /\ heap' # heap)
       => /\ hdr' = hdr
          /\ ViewNext(last'.wk) # View(last'.wk)
          /\ Duplicated(ViewNext(last'.wk))]_vars

\* An Add has returned on its redundant path leaving a stored sequence other
\* than the one it was called on, with a key stored twice.
C14_Witness ==
    /\ last.op = "Add" /\ last.path = "redundant"
    /\ View(last.wk) # last.was
    /\ Len(View(last.wk)) = Len(last.was)
    /\ Duplicated(View(last.wk))
    /\ ~Duplicated(last.was)

\* C15: after Add calls k1..kn on an initially empty value the set of stored
\* keys is the set of subset-minimal keys among k1..kn, whatever the order of
\* the calls; each is stored once.
C15_StoredIsMinimalOfAdded ==
    /\ Range(View(Built)) = Minimal(added)
    /\ Len(View(Built)) = Cardinality(Minimal(added))

\* Four Add calls or more have left two keys; the last call has removed a
\* key, and a key given to a call is neither stored nor a superset of the key
\* of the last call.
C15_Witness ==
    /\ last.op = "Add" /\ last.wk = Built
    /\ last.path = "replaced"
    /\ Cardinality(added) >= 4
    /\ Len(View(Built)) = 2
    /\ \E k \in added : k \notin Range(View(Built)) /\ ~(last.key \subseteq k)

\* C16: after h.Add(k), ContainsSubsetOf(k) is true on h, and every key it
\* was true for before an Add on h it is true for after it; every key of A
\* and of B is covered by A.Combine(B).
C16_NoGuaranteeLost ==
    [][/\ last'.op = "Add"
          => /\ ContainsSubsetOf(ViewNext(last'.wk), last'.key)
             /\ \A c \in ColSet :
                   ContainsSubsetOf(View(last'.wk), c)
                      => ContainsSubsetOf(ViewNext(last'.wk), c)
       /\ last'.op = "Combine"
          => \A c \in Range(View(last'.wk)) \cup Range(View(last'.other)) :
                ContainsSubsetOf(ViewNext(last'.dst), c)]_vars

\* An Add has removed two keys, which the value still covers.
C16_Witness ==
    /\ last.op = "Add" /\ last.path = "replaced"
    /\ Len(View(last.wk)) < Len(last.was)
    /\ \A i \in 1..Len(last.was) : ContainsSubsetOf(View(last.wk), last.was[i])
    /\ \E i \in 1..Len(last.was) : last.was[i] \in Range(View(last.wk))

\* The id the grammar is to see for a token of id `id` followed by a token of
\* id `next` (0: no token follows).
Rewritten(id, next) ==
    CASE id = AS /\ next = OF -> AS_LA
      [] id = NOT /\ next \in {BETWEEN, IN_KW, LIKE, ILIKE, SIMILAR} -> NOT_LA
      [] id = WITH_KW /\ next \in {TIME, ORDINALITY} -> WITH_LA
      [] OTHER -> id

\* C17: the Lex call number n returns token number n of the list, with its
\* position and text and with its own id, but AS before OF as AS_LA, NOT
\* before BETWEEN, IN, LIKE, ILIKE or SIMILAR as NOT_LA, and WITH before TIME
\* or ORDINALITY as WITH_LA; the token looked at is returned by the next call,
\* and the token list is never modified.
C17_LookaheadRewriting ==
    [][/\ lex'.tokens = lex.tokens
       /\ (out.op = "none") => (lex.lastPos = 0 - 1)
       /\ (out'.op = "Lex" /\ lex.lastPos + 1 < Len(lex.tokens))
          => LET n == lex.lastPos + 2
                 tok == lex.tokens[n]
                 next == IF n < Len(lex.tokens) THEN lex.tokens[n + 1].id ELSE 0
             IN  /\ lex'.lastPos = lex.lastPos + 1
                 /\ lval' = [id |-> Rewritten(tok.id, next),
                             pos |-> tok.pos, str |-> tok.str]
                 /\ out'.ret = lval'.id
                 /\ (n = Len(lex.tokens)) => (lval'.id = tok.id)]_vars

\* Lex has returned NOT as NOT_LA and then, at the next call, the BETWEEN,
\* IN, LIKE, ILIKE or SIMILAR it had looked at.
C17_Witness ==
    /\ out.op = "Lex"
    /\ lex.lastPos = 1
    /\ Len(lex.tokens) >= 2
    /\ lex.tokens[1].id = NOT
    /\ lex.tokens[2].id \in {BETWEEN, IN_KW, LIKE, ILIKE, SIMILAR}
    /\ lval.id = lex.tokens[2].id
    /\ out.ret = lval.id

\* C18: every Lex call advances lastPos by one; a Lex call made when all
\* tokens have been returned returns 0 and leaves id 0, pos len(in), str "EOF"
\* in the value, which is what lastToken() reports then; before the first Lex
\* call lastToken() reports the zero token.
C18_EndOfInput ==
    [][/\ (out'.op = "Lex") => lex'.lastPos = lex.lastPos + 1
       /\ (out'.op = "Lex" /\ lex.lastPos + 1 >= Len(lex.tokens))
          => /\ out'.ret = 0
             /\ lval' = [id |-> 0, pos |-> Len(lex.in), str |-> "EOF"]
             /\ lastToken(lex') = lval'
       /\ (lex.lastPos = 0 - 1) => lastToken(lex) = ZeroSym]_vars

\* Lex has been called a second time after the last of two tokens was
\* returned, and has left the EOF token at the end of the text.
C18_Witness ==
    /\ out.op = "Lex"
    /\ Len(lex.tokens) = 2
    /\ lex.lastPos = Len(lex.tokens) + 1
    /\ lval = [id |-> 0, pos |-> Len(lex.in), str |-> "EOF"]
    /\ lval.pos >= 2
    /\ out.ret = 0

\* C19: a SetHelp call made when the last token is not HELPTOKEN changes
\* nothing of the lexer but the hint of the last error (a new record if there
\* was none): msg, detail and unimplementedFeature stay; made when the last
\* token is HELPTOKEN, it sets msg to the help-token message, hint to the
\* help text and unimplementedFeature to "".
C19_SetHelpKeepsError ==
    [][(out'.op = "SetHelp")
       => LET old == IF lex.lastError.nil THEN NewErr ELSE lex.lastError
              new == lex'.lastError
          IN  /\ [lex' EXCEPT !.lastError = NilErr]
                    = [lex EXCEPT !.lastError = NilErr]
              /\ ~new.nil
              /\ new.detail = old.detail
              /\ IF lastToken(lex).id # HELPTOKEN
                 THEN /\ new.msg = old.msg
                      /\ new.unimplementedFeature = old.unimplementedFeature
                      /\ \E m \in HelpMessages :
                            new.hint = IF m.Command # ""
                                       THEN <<"try \\h ", m.Command>>
                                       ELSE <<"try \\hf ", m.Function>>
                 ELSE /\ new.msg = <<"help token in input">>
                      /\ new.unimplementedFeature = <<>>
                      /\ \E m \in HelpMessages : new.hint = <<m.text>>]_vars

\* SetHelp has been called after an Unimplemented call on a token that is not
\* HELPTOKEN: the error keeps its message and its feature and has a hint.
C19_Witness ==
    /\ out.op = "SetHelp"
    /\ lex.lastPos >= 0 /\ lex.lastPos < Len(lex.tokens)
    /\ lastToken(lex).id # HELPTOKEN
    /\ Len(lex.lastError.msg) = 4
    /\ lex.lastError.msg[1] = "unimplemented"
    /\ lex.lastError.unimplementedFeature = <<"feature">>
    /\ lex.lastError.hint = <<"try \\h ", "SELECT">>

====
